---- MODULE Spec2Model ----
(***************************************************************************)
(* Flight search result store (FlightSearchStorage), the provider payload  *)
(* normalisation (FlightBookingServer._transform_flight_data) and the two  *)
(* tools search_flights and filter_flights of src/main.py.                 *)
(*                                                                         *)
(* Python values are modelled as follows.  A dict is a function whose      *)
(* DOMAIN is its key set, a list is a sequence.  A number carries its      *)
(* Python type, [ty |-> "int" | "float", val |-> n].  The strings the      *)
(* program compares with <= (departure times) are sequences of character   *)
(* codes; the strings it only copies or tests for equality are TLA+        *)
(* strings.  A datetime is a count of clock ticks of 24 hours.              *)
(***************************************************************************)
EXTENDS Integers, Sequences, FiniteSets, TLC

VARIABLES
    store,      \* the files search_<id>.json of temp_dir: search_id -> content
    clock,      \* datetime.now(), in ticks
    nextId,     \* the next identifier uuid.uuid4() hands out
    pending,    \* the calls of search_flights suspended in `await ctx.info(...)`,
                \* in the order they were called
    last,       \* the last completed call: operation, arguments, result,
                \* the store as it was when the call began (pre) and, for
                \* search_flights, as it was when the call went on after
                \* its await (before)
    getPc,      \* interleaved filter_flights call: position in get_search_results
    getId,      \*   its search_id
    getFile,    \*   the content behind its open file handle
    getRet,     \*   its outcome
    sweepPc,    \* interleaved cleanup_old_searches call: position in the loop
    sweepTodo,  \*   the files glob() has still to yield
    sweepNow,   \*   its current_time
    sweepAge    \*   its max_age_hours

vars == <<store, clock, nextId, pending, last, getPc, getId, getFile, getRet,
          sweepPc, sweepTodo, sweepNow, sweepAge>>

raceVars == <<getPc, getId, getFile, getRet, sweepPc, sweepTodo, sweepNow, sweepAge>>

(***************************************************************************)
(* Bounds of the model.                                                    *)
(***************************************************************************)
MaxSearches == 2    \* searches in flight plus identifiers issued
MaxClock == 2       \* clock ticks

(***************************************************************************)
(* Program constants.                                                      *)
(***************************************************************************)
SecondsPerHour == 3600
DefaultMaxAgeHours == 24
TickSeconds == 24 * SecondsPerHour

(***************************************************************************)
(* Python values.                                                          *)
(***************************************************************************)
None == "None"
PyInt(n) == [ty |-> "int", val |-> n]
PyFloat(n) == [ty |-> "float", val |-> n]

\* float(x) and int(x) on a number (the values here are whole numbers).
Float(x) == [ty |-> "float", val |-> x.val]
Int_(x) == [ty |-> "int", val |-> x.val]

\* dict.get(key, default)
Get(d, k, default) == IF k \in DOMAIN d THEN d[k] ELSE default

\* str <= str: lexicographic on code points, a proper prefix is smaller.
RECURSIVE StrLeq(_, _)
StrLeq(a, b) ==
    IF a = <<>> THEN TRUE
    ELSE IF b = <<>> THEN FALSE
    ELSE IF Head(a) < Head(b) THEN TRUE
    ELSE IF Head(a) > Head(b) THEN FALSE
    ELSE StrLeq(Tail(a), Tail(b))

\* datetime.isoformat() and datetime.fromisoformat(): the text of a datetime.
IsoFormat(t) == [iso |-> t]
FromIsoFormat(s) == s.iso

(***************************************************************************)
(* json.dump / json.load.  A number is written as a literal, with a        *)
(* fraction part when it is a float ("350.0") and without when it is an    *)
(* int ("350"); reading gives back a float or an int accordingly.  None    *)
(* is written as null.  Strings, lists and dicts with string keys keep     *)
(* their content.                                                          *)
(***************************************************************************)
DumpNum(x) == [literal |-> x.val, fraction |-> (x.ty = "float")]
LoadNum(j) == IF j.fraction THEN PyFloat(j.literal) ELSE PyInt(j.literal)
DumpNone(x) == IF x = None THEN "null" ELSE x
LoadNone(j) == IF j = "null" THEN None ELSE j

DumpSegment(s) == [s EXCEPT !.duration = DumpNum(@)]
LoadSegment(j) == [j EXCEPT !.duration = LoadNum(@)]

DumpFlight(f) ==
    [f EXCEPT !.price = DumpNum(@),
              !.total_duration = DumpNum(@),
              !.stops = DumpNum(@),
              !.carbon_emissions = [k \in DOMAIN @ |-> DumpNum(@[k])],
              !.segments = [i \in DOMAIN @ |-> DumpSegment(@[i])]]
LoadFlight(j) ==
    [j EXCEPT !.price = LoadNum(@),
              !.total_duration = LoadNum(@),
              !.stops = LoadNum(@),
              !.carbon_emissions = [k \in DOMAIN @ |-> LoadNum(@[k])],
              !.segments = [i \in DOMAIN @ |-> LoadSegment(@[i])]]

DumpParams(p) == [p EXCEPT !.return_date = DumpNone(@), !.type = DumpNum(@)]
LoadParams(j) == [j EXCEPT !.return_date = LoadNone(@), !.type = LoadNum(@)]

DumpResults(r) ==
    [r EXCEPT !.search_params = DumpParams(@),
              !.flights = [i \in DOMAIN @ |-> DumpFlight(@[i])]]
LoadResults(j) ==
    [j EXCEPT !.search_params = LoadParams(@),
              !.flights = [i \in DOMAIN @ |-> LoadFlight(@[i])]]

\* json.dump({'timestamp': ..., 'results': results}, f)
JsonDump(doc) == [doc EXCEPT !.results = DumpResults(@)]
\* json.load(f)
JsonLoad(text) == [text EXCEPT !.results = LoadResults(@)]

(***************************************************************************)
(* The provider's payloads (GoogleSearch(params).get_dict()).              *)
(***************************************************************************)
T0800 == <<0, 8, 0, 0>>
T0930 == <<0, 9, 3, 0>>
T1000 == <<1, 0, 0, 0>>
T1200 == <<1, 2, 0, 0>>

RawAirport(id, time) == [name |-> id, id |-> id, time |-> time]

RawSegment(airline, dep, depTime, arr, arrTime) ==
    [airline |-> airline,
     flight_number |-> "X1",
     departure_airport |-> RawAirport(dep, depTime),
     arrival_airport |-> RawAirport(arr, arrTime),
     duration |-> PyInt(60)]

\* A segment with every optional key present.
FullSegment ==
    [airline |-> "CC", flight_number |-> "C7", airplane |-> "A320",
     travel_class |-> "Economy",
     departure_airport |-> RawAirport("DEL", T0930),
     arrival_airport |-> RawAirport("BOM", T1200),
     duration |-> PyInt(150), airline_logo |-> "logo", legroom |-> "30 in",
     overnight |-> TRUE, plane_and_crew_by |-> "CC",
     often_delayed_by_over_30_min |-> TRUE]

\* A segment with no optional key, and one whose arrival airport has no time.
BareSegment ==
    [departure_airport |-> RawAirport("DEL", T0800),
     arrival_airport |-> RawAirport("BOM", T1000)]
BadSegment ==
    [airline |-> "AA",
     departure_airport |-> RawAirport("DEL", T0800),
     arrival_airport |-> [name |-> "BOM", id |-> "BOM"]]

ItinA ==
    [price |-> PyInt(100), total_duration |-> PyInt(120), type |-> "One way",
     flights |-> <<RawSegment("AA", "DEL", T0800, "BOM", T1000)>>]
ItinB ==
    [price |-> PyInt(100), total_duration |-> PyInt(240), type |-> "One way",
     flights |-> <<RawSegment("AA", "DEL", T1000, "JAI", T1200),
                   RawSegment("BB", "JAI", T1200, "BOM", T1200)>>]
ItinC ==
    [price |-> PyFloat(200), total_duration |-> PyInt(120),
     carbon_emissions |-> [this_flight |-> PyInt(7)],
     flights |-> <<RawSegment("BB", "DEL", T0800, "BOM", T1000)>>]
ItinD ==
    [price |-> PyInt(50), total_duration |-> PyInt(150), stops |-> PyInt(5),
     flights |-> <<FullSegment>>]
ItinBare == [flights |-> <<BareSegment>>]
ItinEmpty == [price |-> PyInt(10), total_duration |-> PyInt(10), flights |-> <<>>]
ItinAbsent == [price |-> PyInt(20), total_duration |-> PyInt(20)]
ItinBad == [price |-> PyInt(30), total_duration |-> PyInt(30), flights |-> <<BadSegment>>]

RespTies == [best_flights |-> <<ItinA, ItinB>>, other_flights |-> <<ItinC, ItinD>>]
RespDrops ==
    [best_flights |-> <<ItinC, ItinEmpty, ItinD>>, other_flights |-> <<ItinAbsent, ItinB>>]
RespBare == [other_flights |-> <<ItinBare>>]
RespEmpty == [best_flights |-> <<ItinEmpty>>]
RespBad == [best_flights |-> <<ItinA, ItinBad>>]
RespError == [error |-> "Invalid API key"]

Responses == {RespTies, RespDrops, RespBare, RespEmpty, RespBad, RespError}

(***************************************************************************)
(* FlightBookingServer._transform_flight_data                              *)
(***************************************************************************)
\* api_response.get("best_flights", []) + api_response.get("other_flights", [])
all_flights(api_response) ==
    Get(api_response, "best_flights", <<>>) \o Get(api_response, "other_flights", <<>>)

\* flight_itinerary.get("flights") is truthy
HasSegments(flight_itinerary) ==
    /\ "flights" \in DOMAIN flight_itinerary
    /\ flight_itinerary.flights # <<>>

\* The subscripts of a segment that raise KeyError when the key is absent.
AirportKeysOk(segment, which) ==
    /\ which \in DOMAIN segment
    /\ {"name", "id", "time"} \subseteq DOMAIN segment[which]
SegmentKeysOk(segment) ==
    /\ AirportKeysOk(segment, "departure_airport")
    /\ AirportKeysOk(segment, "arrival_airport")

TransformSegment(segment) ==
    [airline |-> Get(segment, "airline", ""),
     flight_number |-> Get(segment, "flight_number", ""),
     airplane |-> Get(segment, "airplane", ""),
     travel_class |-> Get(segment, "travel_class", ""),
     departure_airport |->
        [name |-> segment.departure_airport.name,
         id |-> segment.departure_airport.id,
         time |-> segment.departure_airport.time],
     arrival_airport |->
        [name |-> segment.arrival_airport.name,
         id |-> segment.arrival_airport.id,
         time |-> segment.arrival_airport.time],
     duration |-> Get(segment, "duration", PyInt(0)),
     airline_logo |-> Get(segment, "airline_logo", ""),
     legroom |-> Get(segment, "legroom", ""),
     overnight |-> Get(segment, "overnight", FALSE),
     plane_and_crew_by |-> Get(segment, "plane_and_crew_by", ""),
     often_delayed_by_over_30_min |-> Get(segment, "often_delayed_by_over_30_min", FALSE)]

\* A faulty variant: the provider's own "stops" is used when it gives one.
StopsFromProvider(flight_itinerary) ==
    Get(flight_itinerary, "stops", PyInt(Len(flight_itinerary.flights) - 1))

\* len(flight_itinerary["flights"]) - 1
StopsOf(flight_itinerary) == PyInt(Len(flight_itinerary.flights) - 1)

\* The convenience views of the first and of the last segment.
DepartureOf(flight_segments) ==
    [airport |-> flight_segments[1].departure_airport,
     time |-> flight_segments[1].departure_airport.time]
ArrivalOf(flight_segments) ==
    [airport |-> flight_segments[Len(flight_segments)].arrival_airport,
     time |-> flight_segments[Len(flight_segments)].arrival_airport.time]

TransformItinerary(flight_itinerary, search_params) ==
    LET flight_segments ==
            [i \in 1..Len(flight_itinerary.flights) |->
                TransformSegment(flight_itinerary.flights[i])]
    IN [price |-> Float(Get(flight_itinerary, "price", PyInt(0))),
        currency |-> Get(search_params, "currency", "USD"),
        total_duration |-> Int_(Get(flight_itinerary, "total_duration", PyInt(0))),
        stops |-> StopsOf(flight_itinerary),
        type |-> Get(flight_itinerary, "type", ""),
        airline_logo |-> Get(flight_itinerary, "airline_logo", ""),
        segments |-> flight_segments,
        carbon_emissions |-> Get(flight_itinerary, "carbon_emissions", <<>>),
        departure |-> DepartureOf(flight_segments),
        arrival |-> ArrivalOf(flight_segments)]

\* The test at the head of the loop body: the itinerary is skipped.
SkipItinerary(flight_itinerary) == ~HasSegments(flight_itinerary)

\* The loop over all_flights.
RECURSIVE TransformLoop(_, _)
TransformLoop(flights, search_params) ==
    IF flights = <<>> THEN <<>>
    ELSE IF SkipItinerary(Head(flights))
         THEN TransformLoop(Tail(flights), search_params)
         ELSE <<TransformItinerary(Head(flights), search_params)>>
              \o TransformLoop(Tail(flights), search_params)

\* The loop raises KeyError at a segment without a required airport key.
TransformRaises(api_response) ==
    \E i \in DOMAIN all_flights(api_response) :
        /\ ~SkipItinerary(all_flights(api_response)[i])
        /\ \E j \in DOMAIN all_flights(api_response)[i].flights :
              ~SegmentKeysOk(all_flights(api_response)[i].flights[j])

\* A faulty variant: the fixed identifier of the commented-out "search_id": 1.
NewSearchIdFixed(next) == 1

\* str(uuid.uuid4()): an identifier no earlier call was given.
NewSearchId(next) == next

transform_flight_data(api_response, search_params, uuid, now) ==
    [search_id |-> NewSearchId(uuid),
     timestamp |-> IsoFormat(now),
     search_params |-> search_params,
     flights |-> TransformLoop(all_flights(api_response), search_params),
     status |-> "success"]

(***************************************************************************)
(* FlightSearchStorage.  A file is complete, with the text json.dump       *)
(* wrote, or holds only a proper prefix of that text (possibly nothing),   *)
(* which json.load cannot parse.                                           *)
(***************************************************************************)
Truncated == [complete |-> FALSE]
Complete(text) == [complete |-> TRUE, text |-> text]

\* A faulty variant: an existing file is left as it is.
WriteFileKeepExisting(st, search_id, content) ==
    IF search_id \in DOMAIN st THEN st
    ELSE [i \in DOMAIN st \cup {search_id} |-> IF i = search_id THEN content ELSE st[i]]

\* open(file_path, 'w') and the writes that follow: the file is created or
\* replaced.
WriteFile(st, search_id, content) ==
    [i \in DOMAIN st \cup {search_id} |-> IF i = search_id THEN content ELSE st[i]]
Unlink(st, search_id) == [i \in DOMAIN st \ {search_id} |-> st[i]]

\* io is what the file system does: "ok", "open_error" (open(file_path, 'w')
\* raises) or "write_error" (json.dump raises after open created the file).
save_search_results(st, search_id, results, now, io) ==
    IF io = "open_error" THEN [store |-> st, raised |-> TRUE]
    ELSE IF io = "write_error"
    THEN [store |-> WriteFile(st, search_id, Truncated), raised |-> TRUE]
    ELSE [store |-> WriteFile(st, search_id,
                      Complete(JsonDump([timestamp |-> IsoFormat(now),
                                         results |-> results]))),
          raised |-> FALSE]

Absent == [found |-> FALSE]
Found(data) == [found |-> TRUE, data |-> data]

\* What get_search_results returns for a file that exists.
ReadDocument(text) == Found(JsonLoad(text))

\* A faulty variant: the file is opened without the exists() test.
get_search_results_NoExistsTest(st, search_id) ==
    IF search_id \notin DOMAIN st THEN [raised |-> TRUE, exc |-> "FileNotFoundError"]
    ELSE IF ~st[search_id].complete THEN [raised |-> TRUE, exc |-> "JSONDecodeError"]
    ELSE [raised |-> FALSE, value |-> ReadDocument(st[search_id].text)]

get_search_results(st, search_id) ==
    IF search_id \notin DOMAIN st THEN [raised |-> FALSE, value |-> Absent]
    ELSE IF ~st[search_id].complete THEN [raised |-> TRUE, exc |-> "JSONDecodeError"]
    ELSE [raised |-> FALSE, value |-> ReadDocument(st[search_id].text)]

(***************************************************************************)
(* search_flights                                                          *)
(***************************************************************************)
SearchArgs ==
    { [departure_id |-> "DEL", arrival_id |-> "BOM", outbound_date |-> "2024-01-01",
       return_date |-> None, currency |-> "INR"],
      [departure_id |-> "DEL", arrival_id |-> "BOM", outbound_date |-> "2024-01-01",
       return_date |-> "", currency |-> "INR"],
      [departure_id |-> "DEL", arrival_id |-> "BOM", outbound_date |-> "2024-01-01",
       return_date |-> "2024-01-09", currency |-> "USD"] }

\* The truth value of an Optional[str]: None and the empty string are false.
Truthy(x) == x # None /\ x # ""

SearchParams(args) ==
    [departure_id |-> args.departure_id,
     arrival_id |-> args.arrival_id,
     outbound_date |-> args.outbound_date,
     return_date |-> args.return_date,
     currency |-> "INR",
     type |-> IF Truthy(args.return_date) THEN PyInt(1) ELSE PyInt(2)]

ErrorResult(message) == [status |-> "error", error |-> message]

\* server.storage.temp_dir: Path(os.getenv("TEMP_FLIGHT_SEARCH_DIR")).
temp_dir == "TEMP_FLIGHT_SEARCH_DIR"

\* The sequence without its k-th element.
Remove(seq, k) == SubSeq(seq, 1, k - 1) \o SubSeq(seq, k + 1, Len(seq))

\* search_flights from the call to `await ctx.info(...)`: without SERPAPI_KEY
\* (has_key false) it returns at once; with it, search_params is built and
\* the coroutine is suspended, and the event loop runs other calls.
search_flights_call(args, has_key) ==
    /\ IF ~has_key
       THEN /\ last' = [op |-> "search_flights", args |-> args, pre |-> store,
                        before |-> store, now |-> clock,
                        ret |-> ErrorResult(
                            "SERPAPI_KEY environment variable is not set")]
            /\ UNCHANGED pending
       ELSE /\ Len(pending) + (nextId - 1) < MaxSearches
            /\ pending' = Append(pending, [args |-> args,
                                           search_params |-> SearchParams(args),
                                           pre |-> store])
            /\ UNCHANGED last
    /\ UNCHANGED <<store, clock, nextId, raceVars>>

\* search_flights from the return of `await ctx.info(...)` to its return, for
\* the k-th suspended call: the provider call, the transform and the save run
\* without another await.  net: ctx.info and the provider call return ("ok")
\* or one of them raises; api_response: what the provider returns; io: see
\* save_search_results.
search_flights_resume(k, net, api_response, io) ==
    /\ k \in DOMAIN pending
    /\ LET call == pending[k]
           transformed_data ==
               transform_flight_data(api_response, call.search_params, nextId, clock)
           saved == save_search_results(store, transformed_data.search_id,
                                        transformed_data, clock, io)
           Done(ret) == [op |-> "search_flights", args |-> call.args,
                         pre |-> call.pre, before |-> store, now |-> clock,
                         api_response |-> api_response, ret |-> ret]
       IN IF net # "ok"
          THEN /\ last' = Done(ErrorResult(<<"Search failed: ", net>>))
               /\ UNCHANGED <<store, nextId>>
          ELSE IF "error" \in DOMAIN api_response
          THEN /\ last' = Done(ErrorResult(<<"API Error: ", api_response.error>>))
               /\ UNCHANGED <<store, nextId>>
          ELSE IF TransformRaises(api_response)
          THEN /\ last' = Done(ErrorResult(<<"Search failed: ", "KeyError">>))
               /\ UNCHANGED <<store, nextId>>
          ELSE /\ nextId' = nextId + 1
               /\ store' = saved.store
               /\ last' = Done(
                     IF saved.raised
                     THEN ErrorResult(<<"Search failed: ", io>>)
                     ELSE [status |-> "success",
                           search_id |-> transformed_data.search_id,
                           flights_count |-> Len(transformed_data.flights),
                           currency |-> call.args.currency,
                           path |-> temp_dir])
    /\ pending' = Remove(pending, k)
    /\ UNCHANGED <<clock, raceVars>>

(***************************************************************************)
(* filter_flights                                                          *)
(***************************************************************************)
\* A faulty variant: the airline test looks at the first segment only.
PassesFiltersFirstSegment(flight, filters) ==
    IF "max_price" \in DOMAIN filters
       /\ Float(flight.price).val > filters.max_price.val
    THEN FALSE
    ELSE IF "max_duration" \in DOMAIN filters
            /\ Int_(flight.total_duration).val > filters.max_duration.val
    THEN FALSE
    ELSE IF "max_stops" \in DOMAIN filters
            /\ flight.stops.val > filters.max_stops.val
    THEN FALSE
    ELSE IF "preferred_airlines" \in DOMAIN filters
            /\ ~(\E k \in DOMAIN filters.preferred_airlines :
                    filters.preferred_airlines[k] = flight.segments[1].airline)
    THEN FALSE
    ELSE IF "departure_time_range" \in DOMAIN filters
            /\ ~(StrLeq(filters.departure_time_range[1], flight.departure.time)
                 /\ StrLeq(flight.departure.time, filters.departure_time_range[2]))
    THEN FALSE
    ELSE TRUE

\* The body of the loop over flights: FALSE where it reaches a continue,
\* TRUE where it reaches filtered_flights.append(flight).
PassesFilters(flight, filters) ==
    IF "max_price" \in DOMAIN filters
       /\ Float(flight.price).val > filters.max_price.val
    THEN FALSE
    ELSE IF "max_duration" \in DOMAIN filters
            /\ Int_(flight.total_duration).val > filters.max_duration.val
    THEN FALSE
    ELSE IF "max_stops" \in DOMAIN filters
            /\ flight.stops.val > filters.max_stops.val
    THEN FALSE
    ELSE IF "preferred_airlines" \in DOMAIN filters
            /\ LET segment_airlines ==
                       {flight.segments[i].airline : i \in DOMAIN flight.segments}
               IN ~(\E airline \in segment_airlines :
                       \E k \in DOMAIN filters.preferred_airlines :
                           filters.preferred_airlines[k] = airline)
    THEN FALSE
    ELSE IF "departure_time_range" \in DOMAIN filters
            /\ LET start_time == filters.departure_time_range[1]
                   end_time == filters.departure_time_range[2]
                   departure_time == flight.departure.time
               IN ~(StrLeq(start_time, departure_time)
                    /\ StrLeq(departure_time, end_time))
    THEN FALSE
    ELSE TRUE

RECURSIVE FilterLoop(_, _)
FilterLoop(flights, filters) ==
    IF flights = <<>> THEN <<>>
    ELSE IF PassesFilters(Head(flights), filters)
         THEN <<Head(flights)>> \o FilterLoop(Tail(flights), filters)
         ELSE FilterLoop(Tail(flights), filters)

\* key(a) < key(b) for the key function of the sort_key branch.
KeyLess(sort_key, a, b) ==
    IF sort_key = "price" THEN Float(a.price).val < Float(b.price).val
    ELSE IF sort_key = "duration"
    THEN Int_(a.total_duration).val < Int_(b.total_duration).val
    ELSE /\ StrLeq(a.departure.time, b.departure.time)
         /\ a.departure.time # b.departure.time

\* x goes before y in the sorted list: by key, in the direction of reverse.
GoesBefore(sort_key, reverse, x, y) ==
    IF reverse THEN KeyLess(sort_key, y, x) ELSE KeyLess(sort_key, x, y)

\* list.sort(key=..., reverse=reverse): x is placed before the first element
\* it goes before, so elements with equal keys keep their order, whichever
\* the direction.
RECURSIVE InsertSorted(_, _, _, _)
InsertSorted(sorted, x, sort_key, reverse) ==
    IF sorted = <<>> THEN <<x>>
    ELSE IF GoesBefore(sort_key, reverse, x, Head(sorted))
         THEN <<x>> \o sorted
         ELSE <<Head(sorted)>> \o InsertSorted(Tail(sorted), x, sort_key, reverse)

RECURSIVE SortLoop(_, _, _, _)
SortLoop(sorted, rest, sort_key, reverse) ==
    IF rest = <<>> THEN sorted
    ELSE SortLoop(InsertSorted(sorted, Head(rest), sort_key, reverse),
                  Tail(rest), sort_key, reverse)

RECURSIVE ReverseSeq(_)
ReverseSeq(q) == IF q = <<>> THEN <<>> ELSE ReverseSeq(Tail(q)) \o <<Head(q)>>

\* A faulty variant: a descending sort is an ascending sort, reversed.
ListSortThenReverse(flights, sort_key, reverse) ==
    IF reverse THEN ReverseSeq(SortLoop(<<>>, flights, sort_key, FALSE))
    ELSE SortLoop(<<>>, flights, sort_key, FALSE)

ListSort(flights, sort_key, reverse) == SortLoop(<<>>, flights, sort_key, reverse)

\* The "Apply sorting" block.
ApplySorting(filtered_flights, filters) ==
    IF "sort_by" \in DOMAIN filters
    THEN LET sort_key == filters.sort_by
             reverse == Get(filters, "sort_order", "asc") = "desc"
         IN IF sort_key \in {"price", "duration", "departure_time"}
            THEN ListSort(filtered_flights, sort_key, reverse)
            ELSE filtered_flights
    ELSE filtered_flights

\* filters.get("search_id"): without the key the lookup is of search_None.json,
\* a file save_search_results never writes.
NoSearchId == 0

NotFound == ErrorResult("No search results found for the provided search ID")

\* What filter_flights returns once get_search_results has returned flights_data.
FilterResult(flights_data, filters) ==
    IF ~flights_data.found THEN NotFound
    ELSE LET flights == IF "results" \in DOMAIN flights_data.data
                        THEN flights_data.data.results.flights ELSE <<>>
             filtered_flights ==
                 ApplySorting(FilterLoop(flights, filters), filters)
         IN [filtered_count |-> Len(filtered_flights),
             total_count |-> Len(flights),
             flights |-> filtered_flights,
             storage |-> Get(filters, "search_id", NoSearchId)]

filter_flights(filters) ==
    /\ getPc = "idle" /\ sweepPc = "idle"
    /\ LET search_id == Get(filters, "search_id", NoSearchId)
           got == get_search_results(store, search_id)
       IN last' = [op |-> "filter_flights", pre |-> store, now |-> clock,
                   filters |-> filters, raised |-> got.raised,
                   ret |-> IF got.raised THEN ErrorResult(got.exc)
                           ELSE FilterResult(got.value, filters)]
    /\ UNCHANGED <<store, clock, nextId, pending, raceVars>>

(***************************************************************************)
(* FlightSearchStorage.cleanup_old_searches                                *)
(***************************************************************************)
\* A faulty variant: a file of exactly the maximum age is expired too.
ExpiredAtMaxAge(current_time, file_time, max_age_hours) ==
    (current_time - file_time) * TickSeconds >= max_age_hours * SecondsPerHour

\* (current_time - file_time).total_seconds() > max_age_hours * 3600
Expired(current_time, file_time, max_age_hours) ==
    (current_time - file_time) * TickSeconds > max_age_hours * SecondsPerHour

\* The try block for one file.  fault is what the file system does to this
\* file: "none", "open_error" (open raises) or "unlink_error" (unlink raises).
SweepBody(st, file, current_time, max_age_hours, fault) ==
    IF file \notin DOMAIN st \/ fault = "open_error"
    THEN [store |-> st, raised |-> TRUE]
    ELSE IF ~st[file].complete
    THEN [store |-> st, raised |-> TRUE]
    ELSE LET data == JsonLoad(st[file].text)
             file_time == FromIsoFormat(data.timestamp)
         IN IF Expired(current_time, file_time, max_age_hours)
            THEN IF fault = "unlink_error"
                 THEN [store |-> st, raised |-> TRUE]
                 ELSE [store |-> Unlink(st, file), raised |-> FALSE]
            ELSE [store |-> st, raised |-> FALSE]

RECURSIVE SweepLoop(_, _, _, _, _)

\* A faulty variant: no handler, the exception ends the sweep.
SweepExceptAbort(st, rest, current_time, max_age_hours, faults) ==
    [store |-> st, raised |-> TRUE]

\* except Exception: continue
SweepExcept(st, rest, current_time, max_age_hours, faults) ==
    SweepLoop(st, rest, current_time, max_age_hours, faults)

\* The loop over glob("search_*.json"), which yields the files in todo's order.
SweepLoop(st, todo, current_time, max_age_hours, faults) ==
    IF todo = <<>> THEN [store |-> st, raised |-> FALSE]
    ELSE LET r == SweepBody(st, Head(todo), current_time, max_age_hours,
                            faults[Head(todo)])
         IN IF r.raised
            THEN SweepExcept(r.store, Tail(todo), current_time, max_age_hours, faults)
            ELSE SweepLoop(r.store, Tail(todo), current_time, max_age_hours, faults)

\* The orders in which glob() can yield the files of the directory.
GlobOrders(st) ==
    {order \in [1..Cardinality(DOMAIN st) -> DOMAIN st] :
        \A i, j \in DOMAIN order : order[i] = order[j] => i = j}

NoFaults(st) == [i \in DOMAIN st |-> "none"]
\* The file system fails on at most one file of a sweep.
SingleFaults(st) ==
    {faults \in [DOMAIN st -> {"none", "open_error", "unlink_error"}] :
        Cardinality({i \in DOMAIN st : faults[i] # "none"}) <= 1}

MaxAgeHours == {0, DefaultMaxAgeHours}

cleanup_old_searches(max_age_hours, order, faults) ==
    /\ getPc = "idle" /\ sweepPc = "idle"
    /\ LET current_time == clock
           swept == SweepLoop(store, order, current_time, max_age_hours, faults)
       IN /\ store' = swept.store
          /\ last' = [op |-> "cleanup_old_searches", pre |-> store, now |-> clock,
                      max_age_hours |-> max_age_hours, faults |-> faults,
                      raised |-> swept.raised]
    /\ UNCHANGED <<clock, nextId, pending, raceVars>>

\* Time passes between calls.
Tick ==
    /\ getPc = "idle" /\ sweepPc = "idle"
    /\ clock < MaxClock
    /\ clock' = clock + 1
    /\ UNCHANGED <<store, nextId, pending, last, raceVars>>

EmptyStore == [i \in {} |-> Truncated]

Init ==
    /\ store = EmptyStore
    /\ clock = 0
    /\ nextId = 1
    /\ pending = <<>>
    /\ last = [op |-> "none"]
    /\ getPc = "idle" /\ getId = 0 /\ getFile = Truncated
    /\ getRet = [raised |-> FALSE, value |-> Absent]
    /\ sweepPc = "idle" /\ sweepTodo = <<>> /\ sweepNow = 0 /\ sweepAge = 0

\* The identifiers a caller can ask for: those issued, one never issued, none.
SearchIds == 0..(MaxSearches + 1)

\* The filter specifications of the system's runs.
SystemFilters ==
    {[search_id |-> id] : id \in SearchIds \ {NoSearchId}}
    \cup {[max_stops |-> PyInt(0)]}
    \cup {[search_id |-> id, max_stops |-> PyInt(0), sort_by |-> "price",
           sort_order |-> "desc"] : id \in SearchIds \ {NoSearchId}}

\* What a suspended call of search_flights meets when it goes on: a provider
\* call that raises, and every payload with every behaviour of the file
\* system.
ProviderCalls(responses, ios) ==
    [net : {"ConnectionError"}, api_response : {RespError}, io : {"ok"}]
    \cup [net : {"ok"}, api_response : responses, io : ios]

FileSystemOutcomes == {"ok", "open_error", "write_error"}

SystemArgs == {a \in SearchArgs : a.return_date = None}
SystemResponses == {RespDrops, RespEmpty, RespBad, RespError}

Next ==
    \/ \E args \in SystemArgs, has_key \in BOOLEAN : search_flights_call(args, has_key)
    \/ \E k \in DOMAIN pending :
          \E c \in ProviderCalls(SystemResponses, FileSystemOutcomes) :
              search_flights_resume(k, c.net, c.api_response, c.io)
    \/ \E filters \in SystemFilters : filter_flights(filters)
    \/ \E max_age_hours \in MaxAgeHours, order \in GlobOrders(store) :
          cleanup_old_searches(max_age_hours, order, NoFaults(store))
    \/ Tick

Spec == Init /\ [][Next]_vars

(***************************************************************************)
(* filter_flights over one stored search, with every filter specification. *)
(***************************************************************************)
\* Every key of the specification is optional: <<>> leaves it out, <<v>>
\* gives it the value v.  Every combination of the five predicates, and every
\* sort key and order alone and with predicates.
PredicateOptions ==
    [search_id : {<<1>>},
     max_price : {<<>>, <<PyFloat(100)>>},
     max_duration : {<<>>, <<PyInt(120)>>},
     max_stops : {<<>>, <<PyInt(0)>>},
     preferred_airlines : {<<>>, <<<<"BB">>>>, <<<<"CC", "AA">>>>},
     departure_time_range : {<<>>, <<<<T0800, T0930>>>>},
     sort_by : {<<>>},
     sort_order : {<<>>}]

SortOptions ==
    [search_id : {<<1>>},
     max_price : {<<>>, <<PyInt(150)>>},
     max_duration : {<<>>},
     max_stops : {<<>>},
     preferred_airlines : {<<>>, <<<<"CC", "AA">>>>},
     departure_time_range : {<<>>},
     sort_by : {<<>>, <<"price">>, <<"duration">>, <<"departure_time">>, <<"stops">>},
     sort_order : {<<>>, <<"asc">>, <<"desc">>}]

FilterOptions == PredicateOptions \cup SortOptions

FilterDict(options) ==
    [k \in {key \in DOMAIN options : options[key] # <<>>} |-> options[k][1]]

FilterSpecs ==
    {FilterDict(options) : options \in FilterOptions}
    \cup {[search_id |-> 2, max_stops |-> PyInt(0)]}

NextFilter ==
    \/ \E args \in SearchArgs, has_key \in BOOLEAN :
          /\ nextId = 1 /\ pending = <<>>
          /\ search_flights_call(args, has_key)
    \/ \E k \in DOMAIN pending :
          \E c \in ProviderCalls(Responses, {"ok"}) :
              search_flights_resume(k, c.net, c.api_response, c.io)
    \/ \E filters \in FilterSpecs : filter_flights(filters)

SpecFilter == Init /\ [][NextFilter]_vars

(***************************************************************************)
(* The sweep on a file system that fails on a single file.                 *)
(***************************************************************************)
NextFault ==
    \/ \E args \in SystemArgs : search_flights_call(args, TRUE)
    \/ \E k \in DOMAIN pending, io \in {"ok", "write_error"} :
          search_flights_resume(k, "ok", RespEmpty, io)
    \/ \E max_age_hours \in MaxAgeHours, order \in GlobOrders(store),
          faults \in SingleFaults(store) :
          cleanup_old_searches(max_age_hours, order, faults)
    \/ Tick

SpecFault == Init /\ [][NextFault]_vars

(***************************************************************************)
(* FlightSearchStorage called directly: save_search_results and            *)
(* get_search_results with any identifier and any normalised record.       *)
(***************************************************************************)
StoredIds == 1..MaxSearches

StorageRecords(search_id, now) ==
    {transform_flight_data(r, SearchParams(a), search_id, now) :
        r \in {RespDrops}, a \in SystemArgs}

\* What a later call remembers of the call before it.
Brief(call) ==
    IF call.op = "save_search_results"
    THEN [op |-> call.op, search_id |-> call.search_id, results |-> call.results,
          now |-> call.now, raised |-> call.raised]
    ELSE [op |-> call.op]

save_call(search_id, results, io) ==
    /\ getPc = "idle" /\ sweepPc = "idle"
    /\ LET saved == save_search_results(store, search_id, results, clock, io)
       IN /\ store' = saved.store
          /\ last' = [op |-> "save_search_results", search_id |-> search_id,
                      results |-> results, now |-> clock, raised |-> saved.raised]
    /\ UNCHANGED <<clock, nextId, pending, raceVars>>

get_call(search_id) ==
    /\ getPc = "idle" /\ sweepPc = "idle"
    /\ last' = [op |-> "get_search_results", search_id |-> search_id,
                got |-> get_search_results(store, search_id), prev |-> Brief(last)]
    /\ UNCHANGED <<store, clock, nextId, pending, raceVars>>

NextStorage ==
    \/ \E search_id \in StoredIds, io \in FileSystemOutcomes :
          \E results \in StorageRecords(search_id, clock) :
              save_call(search_id, results, io)
    \/ \E search_id \in StoredIds : get_call(search_id)
    \/ Tick

SpecStorage == Init /\ [][NextStorage]_vars

(***************************************************************************)
(* filter_flights and cleanup_old_searches running at the same time, each  *)
(* a sequence of file system calls: exists, open, read; open, read,        *)
(* unlink.  An open file keeps its content when the file is unlinked.      *)
(***************************************************************************)
\* filter_flights is called: file_path is computed.
GetStart(search_id) ==
    /\ getPc = "idle"
    /\ getPc' = "exists"
    /\ getId' = search_id
    /\ UNCHANGED <<store, clock, nextId, pending, last, getFile, getRet,
                   sweepPc, sweepTodo, sweepNow, sweepAge>>

\* if file_path.exists():
GetExists ==
    /\ getPc = "exists"
    /\ IF getId \in DOMAIN store
       THEN getPc' = "open" /\ UNCHANGED getRet
       ELSE getPc' = "done" /\ getRet' = [raised |-> FALSE, value |-> Absent]
    /\ UNCHANGED <<store, clock, nextId, pending, last, getId, getFile,
                   sweepPc, sweepTodo, sweepNow, sweepAge>>

\* with open(file_path, 'r') as f:
GetOpen ==
    /\ getPc = "open"
    /\ IF getId \in DOMAIN store
       THEN getPc' = "load" /\ getFile' = store[getId] /\ UNCHANGED getRet
       ELSE /\ getPc' = "done"
            /\ getRet' = [raised |-> TRUE, exc |-> "FileNotFoundError"]
            /\ UNCHANGED getFile
    /\ UNCHANGED <<store, clock, nextId, pending, last, getId,
                   sweepPc, sweepTodo, sweepNow, sweepAge>>

\* data = json.load(f); return data
GetLoad ==
    /\ getPc = "load"
    /\ getPc' = "done"
    /\ getRet' = IF getFile.complete
                 THEN [raised |-> FALSE, value |-> ReadDocument(getFile.text)]
                 ELSE [raised |-> TRUE, exc |-> "JSONDecodeError"]
    /\ UNCHANGED <<store, clock, nextId, pending, last, getId, getFile,
                   sweepPc, sweepTodo, sweepNow, sweepAge>>

\* The rest of filter_flights, or the exception leaving it.
GetReturn ==
    /\ getPc = "done"
    /\ getPc' = "idle"
    /\ last' = [op |-> "filter_flights", pre |-> store, now |-> clock,
                filters |-> [search_id |-> getId], raised |-> getRet.raised,
                ret |-> IF getRet.raised THEN ErrorResult(getRet.exc)
                        ELSE FilterResult(getRet.value, [search_id |-> getId])]
    /\ UNCHANGED <<store, clock, nextId, pending, getId, getFile, getRet,
                   sweepPc, sweepTodo, sweepNow, sweepAge>>

\* current_time = datetime.now(); glob lists the directory.
SweepStart(max_age_hours, order) ==
    /\ sweepPc = "idle"
    /\ sweepPc' = "open"
    /\ sweepTodo' = order
    /\ sweepNow' = clock
    /\ sweepAge' = max_age_hours
    /\ UNCHANGED <<store, clock, nextId, pending, last, getPc, getId, getFile, getRet>>

\* with open(file, 'r') as f:  (a missing file raises, and the loop continues)
SweepOpen ==
    /\ sweepPc = "open"
    /\ sweepTodo # <<>>
    /\ IF Head(sweepTodo) \in DOMAIN store
       THEN sweepPc' = "check" /\ UNCHANGED sweepTodo
       ELSE sweepPc' = "open" /\ sweepTodo' = Tail(sweepTodo)
    /\ UNCHANGED <<store, clock, nextId, pending, last, getPc, getId, getFile, getRet,
                   sweepNow, sweepAge>>

\* json.load, fromisoformat and the comparison of the age.
SweepCheck ==
    /\ sweepPc = "check"
    /\ LET file == store[Head(sweepTodo)]
       IN IF file.complete
             /\ Expired(sweepNow, FromIsoFormat(JsonLoad(file.text).timestamp), sweepAge)
          THEN sweepPc' = "unlink" /\ UNCHANGED sweepTodo
          ELSE sweepPc' = "open" /\ sweepTodo' = Tail(sweepTodo)
    /\ UNCHANGED <<store, clock, nextId, pending, last, getPc, getId, getFile, getRet,
                   sweepNow, sweepAge>>

\* file.unlink()
SweepUnlink ==
    /\ sweepPc = "unlink"
    /\ store' = Unlink(store, Head(sweepTodo))
    /\ sweepPc' = "open"
    /\ sweepTodo' = Tail(sweepTodo)
    /\ UNCHANGED <<clock, nextId, pending, last, getPc, getId, getFile, getRet,
                   sweepNow, sweepAge>>

\* The loop is over.
SweepReturn ==
    /\ sweepPc = "open"
    /\ sweepTodo = <<>>
    /\ sweepPc' = "idle"
    /\ UNCHANGED <<store, clock, nextId, pending, last, getPc, getId, getFile, getRet,
                   sweepTodo, sweepNow, sweepAge>>

NextRace ==
    \/ \E args \in SystemArgs : search_flights_call(args, TRUE)
    \/ \E k \in DOMAIN pending, api_response \in {RespDrops, RespEmpty} :
          search_flights_resume(k, "ok", api_response, "ok")
    \/ Tick
    \/ \E search_id \in SearchIds \ {NoSearchId} : GetStart(search_id)
    \/ GetExists
    \/ GetOpen
    \/ GetLoad
    \/ GetReturn
    \/ \E max_age_hours \in MaxAgeHours, order \in GlobOrders(store) :
          SweepStart(max_age_hours, order)
    \/ SweepOpen
    \/ SweepCheck
    \/ SweepUnlink
    \/ SweepReturn

SpecRace == Init /\ [][NextRace]_vars

(***************************************************************************)
(* Properties.                                                             *)
(***************************************************************************)
\* The record a complete file holds, and the time its timestamp gives.
StoredRecord(file) == JsonLoad(file.text).results
StoredTime(file) == FromIsoFormat(JsonLoad(file.text).timestamp)

\* The identifier a filter specification asks for.
AskedId(filters) == Get(filters, "search_id", NoSearchId)

\* The age of a file in hours at time now.
AgeHours(now, file) == (now - StoredTime(file)) * (TickSeconds \div SecondsPerHour)

\* C1: every call of search_flights either returns "success" with one complete
\* document holding the whole record stored under the returned search_id, or
\* returns "error" and has left the set of stored documents exactly as it
\* was (the documents that other calls stored or removed while this one was
\* suspended are not its doing: the store is compared with the store the
\* call found when it went on); and no stored record has a status other than
\* "success".
C1_SearchAllOrNothing ==
    /\ last.op = "search_flights" =>
        \/ /\ last.ret.status = "success"
           /\ DOMAIN store = DOMAIN last.before \cup {last.ret.search_id}
           /\ last.ret.search_id \notin DOMAIN last.before
           /\ last.ret.search_id \notin DOMAIN last.pre
           /\ \A id \in DOMAIN last.before : store[id] = last.before[id]
           /\ store[last.ret.search_id].complete
           /\ StoredRecord(store[last.ret.search_id]).search_id = last.ret.search_id
           /\ Len(StoredRecord(store[last.ret.search_id]).flights)
                 = last.ret.flights_count
        \/ /\ last.ret.status = "error"
           /\ store = last.before
    /\ \A id \in DOMAIN store :
          store[id].complete => StoredRecord(store[id]).status = "success"

\* C2: filter_flights with a search_id that has no stored document returns
\* the "not found" result, raises nothing and leaves the store as it was,
\* whatever the other keys of the specification.
C2_FilterNotFound ==
    (last.op = "filter_flights" /\ AskedId(last.filters) \notin DOMAIN last.pre)
        => /\ ~last.raised
           /\ last.ret = NotFound
           /\ store = last.pre

\* C2's case: the identifier was issued and its document is gone, other
\* documents are stored, and the specification has other keys.
C2_Witness ==
    /\ last.op = "filter_flights"
    /\ AskedId(last.filters) \notin DOMAIN last.pre
    /\ AskedId(last.filters) \in 1..(nextId - 1)
    /\ DOMAIN last.pre # {}
    /\ "max_stops" \in DOMAIN last.filters
    /\ ~last.raised

\* C3: after cleanup_old_searches(max_age_hours), every stored document whose
\* timestamp is older than max_age_hours is gone, and every document whose
\* timestamp is within the window is still there, unchanged.
C3_SweepExpiry ==
    last.op = "cleanup_old_searches" =>
        \A id \in DOMAIN last.pre :
            last.pre[id].complete =>
                IF AgeHours(last.now, last.pre[id]) > last.max_age_hours
                THEN id \notin DOMAIN store
                ELSE id \in DOMAIN store /\ store[id] = last.pre[id]

\* C3's case: a sweep over a document older than the maximum age and a
\* document of exactly the maximum age.
C3_Witness ==
    /\ last.op = "cleanup_old_searches"
    /\ last.max_age_hours = DefaultMaxAgeHours
    /\ \E old, new \in DOMAIN last.pre :
          /\ last.pre[old].complete /\ last.pre[new].complete
          /\ AgeHours(last.now, last.pre[old]) > last.max_age_hours
          /\ AgeHours(last.now, last.pre[new]) = last.max_age_hours
          /\ old \notin DOMAIN store /\ new \in DOMAIN store

\* C4: a failure on one document (it cannot be opened, parsed or deleted)
\* never ends the sweep: the sweep returns without raising, and every other
\* well-formed document older than the maximum age is deleted by the same
\* sweep, wherever the failing document comes in the enumeration.
C4_SweepSurvivesFailures ==
    last.op = "cleanup_old_searches" =>
        /\ ~last.raised
        /\ \A id \in DOMAIN last.pre :
              (/\ last.pre[id].complete
               /\ last.faults[id] = "none"
               /\ AgeHours(last.now, last.pre[id]) > last.max_age_hours)
                  => id \notin DOMAIN store

\* C4's case: a sweep over a truncated document, a document whose deletion
\* fails, or one that cannot be opened, together with an expired well-formed
\* document, which is gone afterwards.
C4_Witness ==
    /\ last.op = "cleanup_old_searches"
    /\ \E bad, old \in DOMAIN last.pre :
          /\ bad # old
          /\ ~last.pre[bad].complete \/ last.faults[bad] # "none"
          /\ last.pre[old].complete /\ last.faults[old] = "none"
          /\ AgeHours(last.now, last.pre[old]) > last.max_age_hours
          /\ bad \in DOMAIN store /\ old \notin DOMAIN store

\* A save that returned, immediately followed by a get of the same identifier.
SaveThenGet ==
    /\ last.op = "get_search_results"
    /\ last.prev.op = "save_search_results"
    /\ ~last.prev.raised
    /\ last.prev.search_id = last.search_id

\* C5 as stated: get_search_results right after save_search_results of the
\* same identifier returns a value identical to the record that was stored.
C5_RoundTripRecord ==
    SaveThenGet =>
        /\ ~last.got.raised
        /\ last.got.value.found
        /\ last.got.value.data = last.prev.results

\* C5, amended: get_search_results right after save_search_results returns
\* the stored document, {timestamp, results}: its "results" is identical to
\* the record that was stored, field for field, and its "timestamp" is the
\* time of the save.
C5_RoundTripDocument ==
    SaveThenGet =>
        /\ ~last.got.raised
        /\ last.got.value.found
        /\ DOMAIN last.got.value.data = {"timestamp", "results"}
        /\ last.got.value.data.results = last.prev.results
        /\ last.got.value.data.timestamp = IsoFormat(last.prev.now)

\* C5's case: a record with several flights and a None field is saved at a
\* later time and read back.
C5_Witness ==
    /\ SaveThenGet
    /\ Len(last.prev.results.flights) > 1
    /\ last.prev.results.search_params.return_date = None
    /\ last.prev.now > 0
    /\ last.got.value.found

\* A call of filter_flights that found a complete document.
FilterCase ==
    /\ last.op = "filter_flights"
    /\ ~last.raised
    /\ AskedId(last.filters) \in DOMAIN last.pre
    /\ last.pre[AskedId(last.filters)].complete

\* The flights of the document the call read.
StoredFlights == StoredRecord(last.pre[AskedId(last.filters)]).flights

\* The flight satisfies every predicate the specification supplies.
Satisfies(flight, filters) ==
    /\ "max_price" \in DOMAIN filters => flight.price.val <= filters.max_price.val
    /\ "max_duration" \in DOMAIN filters
          => flight.total_duration.val <= filters.max_duration.val
    /\ "max_stops" \in DOMAIN filters => flight.stops.val <= filters.max_stops.val
    /\ "preferred_airlines" \in DOMAIN filters
          => \E i \in DOMAIN flight.segments :
                \E k \in DOMAIN filters.preferred_airlines :
                    flight.segments[i].airline = filters.preferred_airlines[k]
    /\ "departure_time_range" \in DOMAIN filters
          => /\ StrLeq(filters.departure_time_range[1], flight.departure.time)
             /\ StrLeq(flight.departure.time, filters.departure_time_range[2])

Occurrences(flights, flight) == Cardinality({i \in DOMAIN flights : flights[i] = flight})

\* C6: the flights filter_flights returns are exactly the stored flights that
\* satisfy every supplied predicate: each returned flight satisfies them all,
\* each stored flight that satisfies them all is returned as often as it is
\* stored, filtered_count is the number of returned flights and total_count
\* the number of stored flights.
C6_FilterConjunction ==
    FilterCase =>
        /\ \A i \in DOMAIN last.ret.flights :
              /\ Satisfies(last.ret.flights[i], last.filters)
              /\ Occurrences(StoredFlights, last.ret.flights[i]) > 0
        /\ \A i \in DOMAIN StoredFlights :
              Satisfies(StoredFlights[i], last.filters)
                  => Occurrences(last.ret.flights, StoredFlights[i])
                        = Occurrences(StoredFlights, StoredFlights[i])
        /\ last.ret.filtered_count = Len(last.ret.flights)
        /\ last.ret.total_count = Len(StoredFlights)

\* C6's case: several predicates at once, which keep some flights and drop
\* others.
C6_Witness ==
    /\ FilterCase
    /\ {"max_price", "preferred_airlines", "departure_time_range"}
          \subseteq DOMAIN last.filters
    /\ last.ret.filtered_count > 0
    /\ last.ret.filtered_count < last.ret.total_count

\* The order of two flights on the sort key.
SortKeyLess(sort_by, a, b) ==
    CASE sort_by = "price" -> a.price.val < b.price.val
      [] sort_by = "duration" -> a.total_duration.val < b.total_duration.val
      [] sort_by = "departure_time" ->
            StrLeq(a.departure.time, b.departure.time)
            /\ ~StrLeq(b.departure.time, a.departure.time)
SortKeyEqual(sort_by, a, b) ==
    ~SortKeyLess(sort_by, a, b) /\ ~SortKeyLess(sort_by, b, a)

\* A call that sorts: sort_by is one of the three keys.
SortCase ==
    /\ FilterCase
    /\ "sort_by" \in DOMAIN last.filters
    /\ last.filters.sort_by \in {"price", "duration", "departure_time"}

Descending == Get(last.filters, "sort_order", "asc") = "desc"

\* C7: with sort_by one of price, duration, departure_time the returned
\* flights are in the order of that key, in the requested direction, and for
\* both directions the flights with equal keys are in the order they have in
\* the stored record.
C7_StableSort ==
    SortCase =>
        LET out == last.ret.flights
            sort_by == last.filters.sort_by
            Survives(flight) == Satisfies(flight, last.filters)
            survivors == SelectSeq(StoredFlights, Survives)
        IN /\ \A i, j \in DOMAIN out :
                 i < j => IF Descending
                          THEN ~SortKeyLess(sort_by, out[i], out[j])
                          ELSE ~SortKeyLess(sort_by, out[j], out[i])
           /\ \A i \in DOMAIN out :
                 LET Tied(flight) == SortKeyEqual(sort_by, flight, out[i])
                 IN SelectSeq(out, Tied) = SelectSeq(survivors, Tied)

\* C7's case: a descending sort by price whose result has two different
\* flights of one price and a flight of another price.
C7_Witness ==
    /\ SortCase
    /\ Descending
    /\ last.filters.sort_by = "price"
    /\ \E i, j, k \in DOMAIN last.ret.flights :
          /\ i < j
          /\ last.ret.flights[i] # last.ret.flights[j]
          /\ last.ret.flights[i].price.val = last.ret.flights[j].price.val
          /\ last.ret.flights[k].price.val # last.ret.flights[i].price.val

\* C8: over any calls of search_flights, filter_flights and
\* cleanup_old_searches a document is written once and never changes: a
\* document that is still there has the content it had, only the sweep
\* removes a document, a new document is written only by search_flights under
\* an identifier no document ever had, and filter_flights leaves the store as
\* it is.
C8_WriteOnce ==
    [][/\ DOMAIN store \subseteq 1..(nextId - 1)
       /\ \A id \in DOMAIN store : id \in DOMAIN store' => store'[id] = store[id]
       /\ (\E id \in DOMAIN store : id \notin DOMAIN store')
             => last'.op = "cleanup_old_searches"
       /\ \A id \in DOMAIN store' \ DOMAIN store :
             /\ last'.op = "search_flights"
             /\ id = nextId
             /\ nextId' = nextId + 1
       /\ (last'.op = "filter_flights" /\ last' # last) => store' = store]_vars

\* C8's case: after two searches, a call of filter_flights that sorted at
\* least two flights of a stored document.
C8_Witness ==
    /\ nextId > 2
    /\ FilterCase
    /\ "sort_by" \in DOMAIN last.filters
    /\ last.ret.filtered_count > 1
    /\ Cardinality(DOMAIN store) > 1

\* A FlightOption is well formed.
WellFormed(flight) ==
    /\ Len(flight.segments) >= 1
    /\ flight.stops.val = Len(flight.segments) - 1
    /\ flight.departure.airport = flight.segments[1].departure_airport
    /\ flight.departure.time = flight.segments[1].departure_airport.time
    /\ flight.arrival.airport = flight.segments[Len(flight.segments)].arrival_airport
    /\ flight.arrival.time = flight.segments[Len(flight.segments)].arrival_airport.time

\* The itineraries of a payload that have at least one segment, in order.
WithSegments(api_response) ==
    LET raw == Get(api_response, "best_flights", <<>>)
               \o Get(api_response, "other_flights", <<>>)
        NonEmpty(itinerary) ==
            "flights" \in DOMAIN itinerary /\ Len(itinerary.flights) > 0
    IN SelectSeq(raw, NonEmpty)

\* C9: every FlightOption of every stored record is well formed: it has at
\* least one segment, stops is the number of segments minus one, departure is
\* the first segment's departure airport and time, arrival the last
\* segment's arrival airport and time; and the record of a search holds one
\* FlightOption for each raw itinerary that has segments, and none for the
\* itineraries with an empty or absent segment list.
C9_WellFormedFlights ==
    /\ \A id \in DOMAIN store :
          store[id].complete =>
              \A i \in DOMAIN StoredRecord(store[id]).flights :
                  WellFormed(StoredRecord(store[id]).flights[i])
    /\ (last.op = "search_flights" /\ last.ret.status = "success") =>
          LET flights == StoredRecord(store[last.ret.search_id]).flights
              raw == WithSegments(last.api_response)
          IN /\ Len(flights) = Len(raw)
             /\ last.ret.flights_count = Len(raw)
             /\ \A i \in DOMAIN flights :
                   Len(flights[i].segments) = Len(raw[i].flights)

\* C9's case: a stored record of a payload with an empty itinerary, an
\* itinerary without a segment list, an itinerary of two segments and an
\* itinerary for which the provider gives its own "stops".
C9_Witness ==
    /\ last.op = "search_flights"
    /\ last.ret.status = "success"
    /\ last.api_response = RespDrops
    /\ last.ret.flights_count = 3
    /\ \E i \in DOMAIN StoredRecord(store[last.ret.search_id]).flights :
          StoredRecord(store[last.ret.search_id]).flights[i].stops.val = 1

\* C10: get_search_results running while cleanup_old_searches deletes the
\* same document returns the complete document or the absent sentinel: it
\* raises nothing and returns no partial document.  (Every document of
\* SpecRace was written completely.)
C10_GetDuringSweep ==
    getPc = "done" =>
        /\ ~getRet.raised
        /\ getRet.value.found =>
              /\ getRet.value.data.results.search_id = getId
              /\ getRet.value.data.results.status = "success"

====
